---- MODULE Spec2Model ----
(***************************************************************************)
(* Model of scixtract's knowledge index (src/src/scixtract/knowledge.py):  *)
(* the four SQLite tables kept by KnowledgeTracker, the ingestion of an    *)
(* extraction result (add_extraction_result, two committed transactions),  *)
(* the keyword frequency and context-snippet computations, the            *)
(* per-document concept network, and the query layer (search_keywords,     *)
(* get_related_concepts, get_document_stats, export_knowledge_graph).      *)
(*                                                                         *)
(* Text is a sequence of one-character strings over Alphabet.  The         *)
(* alphabet is ASCII: str.lower() maps character to character there.       *)
(***************************************************************************)
EXTENDS Integers, Sequences, FiniteSets, TLC

VARIABLES
    documents,        \* table documents, rows in rowid order
    pages,            \* table pages, rows in id order
    keywords,         \* table keywords, rows in id order
    concept_network,  \* table concept_network, rows in id order
    sqlite_sequence,  \* AUTOINCREMENT counters of pages, keywords, concept_network
    pc,               \* "idle", or "build": add_extraction_result is between its
                      \*   commit (line 194) and the network rebuild (line 198)
    log,              \* the add_extraction_result calls so far, with their outcome
    pre,              \* the committed tables when the latest call started
    fn,               \* inputs and outputs of the pure text functions
    reply,            \* the query made since the latest add_extraction_result
                      \*   call, if any: its arguments and what it returned or
                      \*   wrote (one query is followed per state of the tables)
    handles           \* the connections to the store that an operation opened
                      \*   and that are not closed

vars == <<documents, pages, keywords, concept_network, sqlite_sequence,
          pc, log, pre, fn, reply, handles>>

-----------------------------------------------------------------------------
(* Bounds *)

MaxCalls == 3      \* add_extraction_result calls in one behaviour
MaxTextLen == 4    \* length of a text given to the pure text functions
MaxKeywordLen == 2 \* length of a keyword given to the pure text functions
MaxWindow == 3     \* largest context_length given to _extract_keyword_context
MaxConcurrent == 2 \* add_extraction_result calls that run interleaved

(* Program constants *)

DefaultContextLength == 200   \* context_length default
TopKeywordLimit == 20         \* LIMIT 20 of the network's keyword ranking
SearchLimit == 20             \* search_keywords: limit default
RelatedLimit == 10            \* get_related_concepts: limit default
StatsKeywordLimit == 10       \* get_document_stats: LIMIT 10 of top_keywords
StatsAuthorLimit == 10        \* get_document_stats: most_common(10)
NodeFrequencyFloor == 2       \* export_knowledge_graph: HAVING frequency > 2
NodeLimit == 100              \* export_knowledge_graph: LIMIT 100 of the nodes
EdgeWeightFloor == 1          \* export_knowledge_graph: HAVING weight > 1
EdgeLimit == 200              \* export_knowledge_graph: LIMIT 200 of the edges

-----------------------------------------------------------------------------
(* Characters and strings *)

Alphabet == {" ", ".", "A", "a"}
Whitespace == {" "}

\* code point, for SQLite's BINARY collation
CharCode(c) ==
    CASE c = " " -> 32
      [] c = "\"" -> 34
      [] c = "%" -> 37
      [] c = "," -> 44
      [] c = "." -> 46
      [] c = "A" -> 65
      [] c = "B" -> 66
      [] c = "[" -> 91
      [] c = "\\" -> 92
      [] c = "]" -> 93
      [] c = "_" -> 95
      [] c = "a" -> 97
      [] c = "b" -> 98
      [] OTHER -> 127

LowerChar(c) ==
    CASE c = "A" -> "a"
      [] c = "B" -> "b"
      [] OTHER -> c

\* str.lower()
Lower(s) == [i \in 1..Len(s) |-> LowerChar(s[i])]

\* s[a:b] for 0 <= a and 0 <= b
Slice(s, a, b) == SubSeq(s, a + 1, IF b > Len(s) THEN Len(s) ELSE b)

RECURSIVE FindFrom(_, _, _)
FindFrom(hay, needle, i) ==
    IF i + Len(needle) > Len(hay) THEN -1
    ELSE IF Slice(hay, i, i + Len(needle)) = needle THEN i
    ELSE FindFrom(hay, needle, i + 1)

\* str.find(): index of the first occurrence, -1 when there is none
Find(hay, needle) == FindFrom(hay, needle, 0)

RECURSIVE LStrip(_)
LStrip(s) ==
    IF s # << >> /\ Head(s) \in Whitespace THEN LStrip(Tail(s)) ELSE s

RECURSIVE RStrip(_)
RStrip(s) ==
    IF s # << >> /\ s[Len(s)] \in Whitespace
    THEN RStrip(SubSeq(s, 1, Len(s) - 1))
    ELSE s

\* str.strip()
Strip(s) == RStrip(LStrip(s))

RECURSIVE WordsFrom(_, _, _)
WordsFrom(s, i, inWord) ==
    IF i > Len(s) THEN 0
    ELSE IF s[i] \in Whitespace THEN WordsFrom(s, i + 1, FALSE)
    ELSE (IF inWord THEN 0 ELSE 1) + WordsFrom(s, i + 1, TRUE)

\* len(str.split())
WordCount(s) == WordsFrom(s, 1, FALSE)

Min(a, b) == IF a < b THEN a ELSE b
Max(a, b) == IF a > b THEN a ELSE b

-----------------------------------------------------------------------------
(* Regular expressions, as far as re.escape and re.findall are used *)

ReSpecial == {" ", ".", "\\", "[", "]"}

\* the keyword used as the pattern without re.escape
ReEscapeNothing(s) == s

RECURSIVE ReEscape(_)
\* re.escape(): a backslash before every special character
ReEscape(s) ==
    IF s = << >> THEN << >>
    ELSE (IF Head(s) \in ReSpecial THEN <<"\\", Head(s)>> ELSE <<Head(s)>>)
         \o ReEscape(Tail(s))

RECURSIVE ReParse(_)
\* the compiled pattern: a sequence of atoms, each a literal or the wildcard
ReParse(p) ==
    IF p = << >> THEN << >>
    ELSE IF Head(p) = "\\" /\ Len(p) >= 2
         THEN <<[kind |-> "lit", ch |-> p[2]]>> \o ReParse(SubSeq(p, 3, Len(p)))
    ELSE IF Head(p) = "."
         THEN <<[kind |-> "any", ch |-> "."]>> \o ReParse(Tail(p))
    ELSE <<[kind |-> "lit", ch |-> Head(p)]>> \o ReParse(Tail(p))

\* the pattern matches text at 0-based index i
ReMatchAt(atoms, text, i) ==
    /\ i + Len(atoms) <= Len(text)
    /\ \A j \in 1..Len(atoms) :
          atoms[j].kind = "any" \/ atoms[j].ch = text[i + j]

RECURSIVE ReScan(_, _, _)
\* the matches re.findall reports from index i on: leftmost, then on from the
\* end of the match (one further after an empty match)
ReScan(atoms, text, i) ==
    IF i > Len(text) THEN 0
    ELSE IF ReMatchAt(atoms, text, i)
         THEN 1 + ReScan(atoms, text, i + Max(Len(atoms), 1))
    ELSE ReScan(atoms, text, i + 1)

\* len(re.findall(pattern, text))
ReFindallCount(pattern, text) == ReScan(ReParse(pattern), text, 0)

-----------------------------------------------------------------------------
(* Keyword frequency and context snippet *)

\* len(re.findall(re.escape(keyword.lower()), page_text.lower()))
KeywordFrequency(keyword, page_text) ==
    ReFindallCount(ReEscape(Lower(keyword)), Lower(page_text))

Ellipsis == <<".", ".", ".">>

\* context_length instead of context_length // 2 on either side
ExtractKeywordContextWide(keyword, text, context_length) ==
    LET text_lower    == Lower(text)
        keyword_lower == Lower(keyword)
        pos   == Find(text_lower, keyword_lower)
        start == Max(0, pos - context_length)
        end   == Min(Len(text), pos + Len(keyword) + context_length)
        context == Strip(Slice(text, start, end))
        c1 == IF start > 0 THEN <<".", ".", ".">> \o context ELSE context
        c2 == IF end < Len(text) THEN c1 \o <<".", ".", ".">> ELSE c1
    IN  IF pos = -1 THEN << >> ELSE c2

ExtractKeywordContext(keyword, text, context_length) ==
    LET text_lower    == Lower(text)
        keyword_lower == Lower(keyword)
        pos   == Find(text_lower, keyword_lower)
        start == Max(0, pos - (context_length \div 2))
        end   == Min(Len(text), pos + Len(keyword) + (context_length \div 2))
        context == Strip(Slice(text, start, end))
        c1 == IF start > 0 THEN Ellipsis \o context ELSE context
        c2 == IF end < Len(text) THEN c1 \o Ellipsis ELSE c1
    IN  IF pos = -1 THEN << >> ELSE c2

-----------------------------------------------------------------------------
(* JSON text of a list of strings *)

RECURSIVE JsonEscape(_)
JsonEscape(s) ==
    IF s = << >> THEN << >>
    ELSE (IF Head(s) \in {"\"", "\\"} THEN <<"\\", Head(s)>> ELSE <<Head(s)>>)
         \o JsonEscape(Tail(s))

RECURSIVE JsonItems(_)
JsonItems(list) ==
    IF list = << >> THEN << >>
    ELSE <<"\"">> \o JsonEscape(Head(list)) \o <<"\"">>
         \o (IF Tail(list) = << >> THEN << >> ELSE <<",", " ">>)
         \o JsonItems(Tail(list))

\* json.dumps(list)
JsonDumps(list) == <<"[">> \o JsonItems(list) \o <<"]">>

RECURSIVE JsonScan(_, _, _, _)
\* the string items of a JSON array read from index i on; cur is the item
\* being read when inStr
JsonScan(text, i, inStr, cur) ==
    IF i > Len(text) THEN << >>
    ELSE IF ~inStr
         THEN JsonScan(text, i + 1, text[i] = "\"", << >>)
    ELSE IF text[i] = "\\" /\ i < Len(text)
         THEN JsonScan(text, i + 2, TRUE, Append(cur, text[i + 1]))
    ELSE IF text[i] = "\""
         THEN <<cur>> \o JsonScan(text, i + 1, FALSE, << >>)
    ELSE JsonScan(text, i + 1, TRUE, Append(cur, text[i]))

\* json.loads(text) of an array of strings
JsonLoads(text) == JsonScan(text, 1, FALSE, << >>)

-----------------------------------------------------------------------------
(* The store *)

\* dict.get(k, default)
Get(d, k, default) == IF k \in DOMAIN d THEN d[k] ELSE default

EmptyDict == << >>
EmptyList == << >>
EmptyText == << >>

Store == [documents |-> documents, pages |-> pages, keywords |-> keywords,
          concept_network |-> concept_network,
          sqlite_sequence |-> sqlite_sequence]

EmptyStore == [documents |-> << >>, pages |-> << >>, keywords |-> << >>,
               concept_network |-> << >>,
               sqlite_sequence |->
                   [pages |-> 0, keywords |-> 0, concept_network |-> 0]]

\* the cite_key the call works on
CiteKeyOf(result_data) == Get(Get(result_data, "metadata", EmptyDict), "cite_key", "")

\* the row of INSERT OR REPLACE INTO documents
DocumentRow(result_data, file_path) ==
    LET metadata == Get(result_data, "metadata", EmptyDict) IN
    [cite_key        |-> Get(metadata, "cite_key", ""),
     title           |-> Get(metadata, "title", ""),
     authors         |-> JsonDumps(Get(metadata, "authors", EmptyList)),
     year            |-> Get(metadata, "year", ""),
     keywords        |-> JsonDumps(Get(metadata, "keywords", EmptyList)),
     key_concepts    |-> JsonDumps(Get(result_data, "key_concepts", EmptyList)),
     page_count      |-> Get(metadata, "page_count", 0),
     extraction_date |-> Get(metadata, "extraction_date", ""),
     file_path       |-> file_path,
     processing_time |-> Get(metadata, "processing_time", 0)]

\* INSERT OR IGNORE instead: a row with the same primary key stays
InsertOrIgnore(rows, row) ==
    IF \E i \in 1..Len(rows) : rows[i].cite_key = row.cite_key
    THEN rows ELSE rows \o <<row>>

\* INSERT OR REPLACE: the row with the same primary key goes, the new row is
\* stored last
InsertOrReplace(rows, row) ==
    SelectSeq(rows, LAMBDA r : r.cite_key # row.cite_key) \o <<row>>

\* the DELETE left out
DeleteNothing(rows, cite_key) == rows

\* DELETE FROM <table> WHERE cite_key = ?
DeleteWhereCiteKey(rows, cite_key) ==
    SelectSeq(rows, LAMBDA r : r.cite_key # cite_key)

\* the row of INSERT INTO pages
PageRow(id, cite_key, page_data) ==
    [id            |-> id,
     cite_key      |-> cite_key,
     page_num      |-> Get(page_data, "page_num", 0),
     content_type  |-> Get(page_data, "content_type", "main"),
     keywords      |-> JsonDumps(Get(page_data, "keywords", EmptyList)),
     word_count    |-> WordCount(Get(page_data, "processed_text", EmptyText)),
     has_figures   |-> Len(Get(page_data, "figures", EmptyList)) > 0,
     has_tables    |-> Len(Get(page_data, "tables", EmptyList)) > 0,
     has_equations |-> Len(Get(page_data, "equations", EmptyList)) > 0]

\* the keyword stored as given, not lower-cased
KeywordRowAsGiven(id, cite_key, page_data, keyword) ==
    LET page_text == Get(page_data, "processed_text", EmptyText) IN
    [id        |-> id,
     keyword   |-> keyword,
     cite_key  |-> cite_key,
     page_num  |-> Get(page_data, "page_num", 0),
     frequency |-> KeywordFrequency(keyword, page_text),
     context   |-> ExtractKeywordContext(keyword, page_text, DefaultContextLength)]

\* the row of INSERT INTO keywords
KeywordRow(id, cite_key, page_data, keyword) ==
    LET page_text == Get(page_data, "processed_text", EmptyText) IN
    [id        |-> id,
     keyword   |-> Lower(keyword),
     cite_key  |-> cite_key,
     page_num  |-> Get(page_data, "page_num", 0),
     frequency |-> KeywordFrequency(keyword, page_text),
     context   |-> ExtractKeywordContext(keyword, page_text, DefaultContextLength)]

\* one turn of "for page_data in pages": the page row, then one keyword row
\* for every entry of the page's keyword list
InsertPage(st, cite_key, page_data) ==
    LET page_keywords == Get(page_data, "keywords", EmptyList)
        pid == st.sqlite_sequence.pages + 1
        kid == st.sqlite_sequence.keywords
    IN  [st EXCEPT
           !.pages = @ \o <<PageRow(pid, cite_key, page_data)>>,
           !.keywords = @ \o [j \in 1..Len(page_keywords) |->
                                KeywordRow(kid + j, cite_key, page_data,
                                           page_keywords[j])],
           !.sqlite_sequence.pages = pid,
           !.sqlite_sequence.keywords = kid + Len(page_keywords)]

RECURSIVE InsertPages(_, _, _)
InsertPages(st, cite_key, pageList) ==
    IF pageList = << >> THEN st
    ELSE InsertPages(InsertPage(st, cite_key, Head(pageList)), cite_key,
                     Tail(pageList))

\* add_extraction_result up to its commit: the document row, the deletion of
\* the key's pages and keywords, the new page and keyword rows
WriteDocument(st, result_data, file_path) ==
    LET cite_key == CiteKeyOf(result_data)
        cleared ==
            [st EXCEPT
               !.documents = InsertOrReplace(@, DocumentRow(result_data, file_path)),
               !.pages = DeleteWhereCiteKey(@, cite_key),
               !.keywords = DeleteWhereCiteKey(@, cite_key)]
    IN  InsertPages(cleared, cite_key, Get(result_data, "pages", EmptyList))

-----------------------------------------------------------------------------
(* The concept network of one document *)

\* the elements of a finite set as a sequence in the order of Before, a
\* strict total order on the set (ORDER BY)
SortedSeq(S, Before(_, _)) ==
    LET ranked == {<<x, Cardinality({y \in S : Before(y, x)})>> : x \in S}
    IN  [r \in 1..Cardinality(S) |-> (CHOOSE p \in ranked : p[2] = r - 1)[1]]

\* LIMIT n: SQLite takes a negative n as no limit
Limit(rows, n) ==
    IF n < 0 \/ n >= Len(rows) THEN rows ELSE SubSeq(rows, 1, n)

RECURSIVE TextLess(_, _)
\* a < b in SQLite's BINARY collation
TextLess(a, b) ==
    IF b = << >> THEN FALSE
    ELSE IF a = << >> THEN TRUE
    ELSE IF Head(a) # Head(b) THEN CharCode(Head(a)) < CharCode(Head(b))
    ELSE TextLess(Tail(a), Tail(b))

\* COUNT(*) of the keyword's rows of the document
KeywordRowCount(rows, cite_key, keyword) ==
    Cardinality({i \in 1..Len(rows) :
                    rows[i].cite_key = cite_key /\ rows[i].keyword = keyword})

\* the ranking without its LIMIT 20
RankedKeywordsUnlimited(rows, cite_key) ==
    LET kws == {rows[i].keyword : i \in {j \in 1..Len(rows) : rows[j].cite_key = cite_key}}
        counted == {<<kw, KeywordRowCount(rows, cite_key, kw)>> : kw \in kws}
        before(a, b) == \/ a[2] > b[2]
                        \/ a[2] = b[2] /\ TextLess(b[1], a[1])
        fetched == SortedSeq(counted, before)
    IN  [r \in 1..Len(fetched) |-> fetched[r][1]]

\* the ranking with ORDER BY frequency ASC
RankedKeywordsAscending(rows, cite_key) ==
    LET kws == {rows[i].keyword : i \in {j \in 1..Len(rows) : rows[j].cite_key = cite_key}}
        counted == {<<kw, KeywordRowCount(rows, cite_key, kw)>> : kw \in kws}
        before(a, b) == \/ a[2] < b[2]
                        \/ a[2] = b[2] /\ TextLess(b[1], a[1])
        fetched == Limit(SortedSeq(counted, before), TopKeywordLimit)
    IN  [r \in 1..Len(fetched) |-> fetched[r][1]]

\* SELECT keyword, COUNT(*) ... WHERE cite_key = ? GROUP BY keyword
\* ORDER BY frequency DESC LIMIT 20.  SQLite returns equal counts in
\* descending keyword order (the groups come out of the GROUP BY b-tree in
\* ascending order and the ORDER BY ... DESC sorter reverses them).
RankedKeywords(rows, cite_key) ==
    LET kws == {rows[i].keyword : i \in {j \in 1..Len(rows) : rows[j].cite_key = cite_key}}
        counted == {<<kw, KeywordRowCount(rows, cite_key, kw)>> : kw \in kws}
        before(a, b) == \/ a[2] > b[2]
                        \/ a[2] = b[2] /\ TextLess(b[1], a[1])
        fetched == Limit(SortedSeq(counted, before), TopKeywordLimit)
    IN  [r \in 1..Len(fetched) |-> fetched[r][1]]

RECURSIVE ConceptPairsWithSelf(_)
\* keywords[i:] instead of keywords[i + 1:]
ConceptPairsWithSelf(kws) ==
    IF kws = << >> THEN << >>
    ELSE [j \in 1..Len(kws) |-> <<kws[1], kws[j]>>]
         \o ConceptPairsWithSelf(Tail(kws))

RECURSIVE ConceptPairs(_)
\* for i, kw1 in enumerate(keywords): for kw2 in keywords[i + 1:]
ConceptPairs(kws) ==
    IF Len(kws) < 2 THEN << >>
    ELSE [j \in 1..(Len(kws) - 1) |-> <<kws[1], kws[j + 1]>>]
         \o ConceptPairs(Tail(kws))

\* the rebuild with DELETE FROM concept_network without its WHERE
BuildConceptNetworkAnew(st, cite_key) ==
    LET pairs == ConceptPairs(RankedKeywords(st.keywords, cite_key))
        first == st.sqlite_sequence.concept_network
    IN  [st EXCEPT
           !.concept_network = [j \in 1..Len(pairs) |->
               [id                 |-> first + j,
                concept            |-> pairs[j][1],
                related_concept    |-> pairs[j][2],
                cite_key           |-> cite_key,
                co_occurrence_count |-> 1]],
           !.sqlite_sequence.concept_network = first + Len(pairs)]

\* _build_concept_network_for_document
BuildConceptNetworkForDocument(st, cite_key) ==
    LET kept  == DeleteWhereCiteKey(st.concept_network, cite_key)
        pairs == ConceptPairs(RankedKeywords(st.keywords, cite_key))
        first == st.sqlite_sequence.concept_network
    IN  [st EXCEPT
           !.concept_network = kept \o [j \in 1..Len(pairs) |->
               [id                 |-> first + j,
                concept            |-> pairs[j][1],
                related_concept    |-> pairs[j][2],
                cite_key           |-> cite_key,
                co_occurrence_count |-> 1]],
           !.sqlite_sequence.concept_network = first + Len(pairs)]

-----------------------------------------------------------------------------
(* The query layer *)

RECURSIVE LikeFrom(_, _, _, _)
\* the LIKE pattern from index i on matches s from index j to its end:
\* % is any run of characters, _ is any one character, ASCII letter case is
\* ignored
LikeFrom(pattern, i, s, j) ==
    IF i > Len(pattern) THEN j > Len(s)
    ELSE IF pattern[i] = "%"
         THEN \E k \in j..(Len(s) + 1) : LikeFrom(pattern, i + 1, s, k)
    ELSE /\ j <= Len(s)
         /\ (pattern[i] = "_" \/ LowerChar(pattern[i]) = LowerChar(s[j]))
         /\ LikeFrom(pattern, i + 1, s, j + 1)

\* s LIKE pattern
Like(s, pattern) == LikeFrom(pattern, 1, s, 1)

\* f"%{text.lower()}%"
ContainsPattern(text) == <<"%">> \o Lower(text) \o <<"%">>

RECURSIVE SumCounts(_, _)
\* SUM(co_occurrence_count) over the rows with an index in I
SumCounts(rows, I) ==
    IF I = {} THEN 0
    ELSE LET i == CHOOSE x \in I : TRUE
         IN  rows[i].co_occurrence_count + SumCounts(rows, I \ {i})

\* search_keywords: rows of keywords scanned in id order and joined to their
\* document, DISTINCT on the six result columns (the first of equal rows
\* stays), ORDER BY k.frequency DESC (equal frequencies stay in scan order),
\* LIMIT; then the authors column is decoded
SearchKeywordsRows(st, query, limit) ==
    LET pattern == ContainsPattern(query)
        k == st.keywords
        d == st.documents
        joined == {i \in 1..Len(k) :
                      /\ Like(k[i].keyword, pattern)
                      /\ \E j \in 1..Len(d) : d[j].cite_key = k[i].cite_key}
        doc == [i \in joined |-> d[CHOOSE j \in 1..Len(d) : d[j].cite_key = k[i].cite_key]]
        row == [i \in joined |->
                  [cite_key |-> k[i].cite_key, title |-> doc[i].title,
                   authors |-> doc[i].authors, keyword |-> k[i].keyword,
                   context |-> k[i].context, page_num |-> k[i].page_num]]
        distinct == {i \in joined : \A j \in joined : j < i => row[j] # row[i]}
        before(i, j) == \/ k[i].frequency > k[j].frequency
                        \/ k[i].frequency = k[j].frequency /\ i < j
        fetched == Limit(SortedSeq(distinct, before), limit)
    IN  [r \in 1..Len(fetched) |->
           [row[fetched[r]] EXCEPT
              !.authors = IF @ # << >> THEN JsonLoads(@) ELSE << >>]]

\* get_related_concepts: the rows whose concept matches, GROUP BY
\* related_concept, ORDER BY SUM(co_occurrence_count) DESC (equal sums come in
\* descending related_concept order), LIMIT
RelatedConceptsRows(st, concept, limit) ==
    LET pattern == ContainsPattern(concept)
        rows == st.concept_network
        matched == {i \in 1..Len(rows) : Like(rows[i].concept, pattern)}
        groups == {rows[i].related_concept : i \in matched}
        totals == {<<g, SumCounts(rows, {i \in matched : rows[i].related_concept = g})>> :
                      g \in groups}
        before(a, b) == \/ a[2] > b[2]
                        \/ a[2] = b[2] /\ TextLess(b[1], a[1])
    IN  Limit(SortedSeq(totals, before), limit)

\* SELECT keyword, COUNT(*) FROM keywords GROUP BY keyword, with the id of
\* the first row of every group: <<keyword, count, id>>
KeywordCounts(rows) ==
    {<<kw, Cardinality({i \in 1..Len(rows) : rows[i].keyword = kw}),
       CHOOSE i \in 1..Len(rows) :
          rows[i].keyword = kw /\ \A j \in 1..(i - 1) : rows[j].keyword # kw>> :
       kw \in {rows[i].keyword : i \in 1..Len(rows)}}

\* the keyword groups by count, without the LIMIT
TopKeywordsUnlimited(rows) ==
    LET before(a, b) == \/ a[2] > b[2]
                        \/ a[2] = b[2] /\ TextLess(a[1], b[1])
        fetched == SortedSeq(KeywordCounts(rows), before)
    IN  [r \in 1..Len(fetched) |-> <<fetched[r][1], fetched[r][2]>>]

\* ... ORDER BY frequency DESC LIMIT 10: the groups come from the index on
\* keyword, and equal counts stay in ascending keyword order
TopKeywords(rows) ==
    LET before(a, b) == \/ a[2] > b[2]
                        \/ a[2] = b[2] /\ TextLess(a[1], b[1])
        fetched == Limit(SortedSeq(KeywordCounts(rows), before), StatsKeywordLimit)
    IN  [r \in 1..Len(fetched) |-> <<fetched[r][1], fetched[r][2]>>]

RECURSIVE AllAuthors(_)
\* all_authors: the author lists of the documents WHERE authors != '[]', in
\* rowid order, one after the other
AllAuthors(docs) ==
    IF docs = << >> THEN << >>
    ELSE (IF Head(docs).authors # <<"[", "]">>
          THEN JsonLoads(Head(docs).authors) ELSE << >>)
         \o AllAuthors(Tail(docs))

\* Counter(items).most_common(n): by count, equal counts in the order of
\* first appearance
MostCommon(items, n) ==
    LET counted ==
            {<<x, Cardinality({i \in 1..Len(items) : items[i] = x}),
               CHOOSE i \in 1..Len(items) :
                  items[i] = x /\ \A j \in 1..(i - 1) : items[j] # x>> :
               x \in {items[i] : i \in 1..Len(items)}}
        before(a, b) == \/ a[2] > b[2]
                        \/ a[2] = b[2] /\ a[3] < b[3]
        fetched == Limit(SortedSeq(counted, before), n)
    IN  [r \in 1..Len(fetched) |-> <<fetched[r][1], fetched[r][2]>>]

\* the year texts the extraction results use, ascending in BINARY collation
YearsAscending == <<"2023", "2024">>

YearIndex(year) ==
    CHOOSE i \in 1..Len(YearsAscending) : YearsAscending[i] = year

\* SELECT year, COUNT(*) FROM documents WHERE year != '' GROUP BY year
\* ORDER BY year DESC
YearDistribution(docs) ==
    LET years == {docs[i].year : i \in 1..Len(docs)} \ {""}
        before(a, b) == YearIndex(a) > YearIndex(b)
        fetched == SortedSeq(years, before)
    IN  [r \in 1..Len(fetched) |->
           <<fetched[r],
             Cardinality({i \in 1..Len(docs) : docs[i].year = fetched[r]})>>]

\* the statistics with MAX(rowid) + 1 in place of COUNT(*) FROM documents
DocumentStatsByRowid(st) ==
    [document_count          |-> Len(st.documents) + 1,
     page_count              |-> Len(st.pages),
     unique_keywords         |-> Cardinality({st.keywords[i].keyword :
                                                 i \in 1..Len(st.keywords)}),
     total_keyword_instances |-> Len(st.keywords),
     top_keywords            |-> TopKeywords(st.keywords),
     top_authors             |-> MostCommon(AllAuthors(st.documents), StatsAuthorLimit),
     year_distribution       |-> YearDistribution(st.documents)]

\* the dictionary get_document_stats returns
DocumentStats(st) ==
    [document_count          |-> Len(st.documents),
     page_count              |-> Len(st.pages),
     unique_keywords         |-> Cardinality({st.keywords[i].keyword :
                                                 i \in 1..Len(st.keywords)}),
     total_keyword_instances |-> Len(st.keywords),
     top_keywords            |-> TopKeywords(st.keywords),
     top_authors             |-> MostCommon(AllAuthors(st.documents), StatsAuthorLimit),
     year_distribution       |-> YearDistribution(st.documents)]

\* the nodes of export_knowledge_graph: GROUP BY keyword, HAVING frequency > 2
\* where frequency is the column of the keywords table (SQLite resolves the
\* name to the table's column before the alias of COUNT(*), and takes the
\* column from the group's first row in index order, the one with the lowest
\* id), ORDER BY COUNT(*) DESC with equal counts in ascending keyword order,
\* LIMIT 100
GraphNodes(rows) ==
    LET having == {g \in KeywordCounts(rows) :
                      rows[g[3]].frequency > NodeFrequencyFloor}
        before(a, b) == \/ a[2] > b[2]
                        \/ a[2] = b[2] /\ TextLess(a[1], b[1])
        fetched == Limit(SortedSeq(having, before), NodeLimit)
    IN  [r \in 1..Len(fetched) |-> [id |-> fetched[r][1], frequency |-> fetched[r][2]]]

\* the edges of export_knowledge_graph: GROUP BY concept, related_concept,
\* HAVING SUM(co_occurrence_count) > 1, ORDER BY that sum DESC with equal
\* sums in ascending (concept, related_concept) order, LIMIT 200
GraphEdges(rows) ==
    LET pairs == {<<rows[i].concept, rows[i].related_concept>> : i \in 1..Len(rows)}
        weighted == {<<p[1], p[2],
                       SumCounts(rows, {i \in 1..Len(rows) :
                          rows[i].concept = p[1] /\ rows[i].related_concept = p[2]})>> :
                        p \in pairs}
        having == {g \in weighted : g[3] > EdgeWeightFloor}
        before(a, b) ==
            \/ a[3] > b[3]
            \/ /\ a[3] = b[3]
               /\ (TextLess(a[1], b[1]) \/ (a[1] = b[1] /\ TextLess(a[2], b[2])))
        fetched == Limit(SortedSeq(having, before), EdgeLimit)
    IN  [r \in 1..Len(fetched) |->
           [source |-> fetched[r][1], target |-> fetched[r][2],
            weight |-> fetched[r][3]]]

\* graph_data, the document export_knowledge_graph writes to output_file
GraphData(st, generated) ==
    LET nodes == GraphNodes(st.keywords)
        edges == GraphEdges(st.concept_network)
    IN  [nodes |-> nodes, edges |-> edges,
         metadata |-> [generated |-> generated, node_count |-> Len(nodes),
                       edge_count |-> Len(edges)]]

-----------------------------------------------------------------------------
(* The schema *)

\* the tables init_database creates, in the order of its statements
SchemaTables == <<"documents", "pages", "keywords", "concept_network">>

\* DROP TABLE and CREATE TABLE: the table is there and holds no row
CreateTableAnew(st, table) ==
    [f \in DOMAIN st \cup {table} |-> IF f = table THEN << >> ELSE st[f]]

\* CREATE TABLE IF NOT EXISTS: a table that exists keeps its rows, a missing
\* one is created without rows
CreateTableIfNotExists(st, table) ==
    IF table \in DOMAIN st THEN st
    ELSE [f \in DOMAIN st \cup {table} |-> IF f = table THEN << >> ELSE st[f]]

RECURSIVE CreateTables(_, _)
CreateTables(st, tables) ==
    IF tables = << >> THEN st
    ELSE CreateTables(CreateTableIfNotExists(st, Head(tables)), Tail(tables))

\* init_database: the four CREATE TABLE IF NOT EXISTS statements; the three
\* CREATE INDEX IF NOT EXISTS statements that follow change no row
InitDatabaseStore(st) == CreateTables(st, SchemaTables)

-----------------------------------------------------------------------------
(* Extraction results given to add_extraction_result *)

CiteKeys == {"smith2024", "doe2023"}

\* metadata as the extraction pipeline writes it, in two versions per key
Metadata(cite_key, version) ==
    [cite_key        |-> cite_key,
     title           |-> IF version = 1 THEN "Ammonia synthesis" ELSE "Ammonia synthesis, revised",
     authors         |-> IF version = 1 THEN << <<"A">>, <<"a", " ", "A">> >>
                                        ELSE << <<"a", " ", "A">>, <<"A">> >>,
     year            |-> IF version = 1 THEN "2023" ELSE "2024",
     keywords        |-> IF version = 1 THEN << <<"a">> >> ELSE << <<"a">>, <<"A", ".">> >>,
     page_count      |-> IF version = 1 THEN 2 ELSE 5,
     extraction_date |-> IF version = 1 THEN "2024-01-01" ELSE "2024-02-02",
     processing_time |-> version]

PageOne ==
    [page_num |-> 1, content_type |-> "abstract",
     keywords |-> << <<"A">>, <<"a", ".">> >>,
     processed_text |-> <<"a", ".", " ", "A", "a">>,
     figures |-> << >>, tables |-> << >>, equations |-> << >>]

PageTwo ==
    [page_num |-> 2, content_type |-> "methods",
     keywords |-> << <<"a", "a">>, <<".">> >>,
     processed_text |-> <<" ", "a", "A", "a", " ">>,
     figures |-> <<"Figure 1">>, tables |-> << >>, equations |-> <<"E1">>]

\* a second page numbered 1
PageOneAgain ==
    [page_num |-> 1, content_type |-> "results",
     keywords |-> << <<"a", ".">> >>,
     processed_text |-> <<"A", ".">>,
     figures |-> << >>, tables |-> <<"Table 1">>, equations |-> << >>]

\* a keyword list with two spellings of one keyword
PageSpellings ==
    [page_num |-> 3, content_type |-> "main",
     keywords |-> << <<"A">>, <<"a">> >>,
     processed_text |-> <<"a">>]

\* a page with no field at all
PageBare == EmptyDict

Result(metadata, pageList) ==
    [metadata |-> metadata, pages |-> pageList,
     key_concepts |-> << <<"a", "A">> >>]

\* the calls made: <<result_data, file_path>>
Calls ==
    {<<Result(Metadata("smith2024", 1), <<PageOne, PageTwo>>), "smith.pdf">>,
     <<Result(Metadata("smith2024", 2), <<PageTwo>>), "copy.pdf">>,
     <<Result(Metadata("smith2024", 2), << >>), "smith.pdf">>,
     <<Result(Metadata("doe2023", 2), <<PageOne, PageOneAgain>>), "doe.pdf">>,
     <<[metadata |-> [cite_key |-> "doe2023"], pages |-> <<PageBare, PageSpellings>>], "doe.pdf">>,
     <<Result([cite_key |-> "", title |-> "No key"], <<PageOne>>), "nokey.pdf">>,
     <<EmptyDict, "nokey.pdf">>}

-----------------------------------------------------------------------------
(* Inputs of the pure text functions *)

SeqsUpTo(S, n) == UNION {[1..k -> S] : k \in 0..n}

FnIdle == [phase |-> "none"]

FnInput(k, t, w) == [phase |-> "in", keyword |-> k, text |-> t, window |-> w]

\* no query since the latest add_extraction_result call
NoReply == [op |-> "none"]

-----------------------------------------------------------------------------
(* A corpus for the query layer *)

\* two keywords more than the network's ranking keeps
ManyKeywords ==
    SubSeq(SortedSeq(SeqsUpTo({".", "a", "b"}, 3) \ {<< >>}, TextLess),
           1, TopKeywordLimit + 2)

\* one author more than top_authors keeps
ManyAuthors ==
    SubSeq(SortedSeq(SeqsUpTo({".", "A", "b"}, 2) \ {<< >>}, TextLess),
           1, StatsAuthorLimit + 1)

\* a page with all of these keywords
PageMany ==
    [page_num |-> 1, content_type |-> "results",
     keywords |-> ManyKeywords,
     processed_text |-> <<"a", "b", " ", "a", ".", "b", " ", "A", "B">>,
     figures |-> << >>, tables |-> << >>, equations |-> << >>]

\* a page that repeats three of them, two of them twice
PageSome ==
    [page_num |-> 2, content_type |-> "discussion",
     keywords |-> <<ManyKeywords[TopKeywordLimit + 1], ManyKeywords[2],
                    ManyKeywords[TopKeywordLimit + 1], ManyKeywords[12],
                    ManyKeywords[2]>>,
     processed_text |-> <<"b", ".", "b", ".", "b", ".", "b">>,
     figures |-> << >>, tables |-> << >>, equations |-> << >>]

\* an author named twice
MetadataTwice ==
    [cite_key |-> "doe2023", title |-> "Catalysis",
     authors |-> << <<"A">>, <<"b">>, <<"A">> >>, year |-> "2023"]

\* two pages numbered 4 whose texts differ in the surrounding blanks only; the
\* second one carries a label of its own as content_type
PageSpaced ==
    [page_num |-> 4, content_type |-> "main",
     keywords |-> << <<" ">>, <<"a">> >>,
     processed_text |-> <<"a", " ", "a">>]

PageSpacedAgain ==
    [page_num |-> 4, content_type |-> "acknowledgements",
     keywords |-> << <<" ">> >>,
     processed_text |-> <<" ", "a", " ", "a", " ">>]

Corpus ==
    {<<Result(Metadata("smith2024", 1), <<PageOne, PageTwo>>), "smith.pdf">>,
     <<Result(Metadata("doe2023", 2), <<PageOne, PageOneAgain>>), "doe.pdf">>,
     <<Result(MetadataTwice, <<PageTwo, PageSpellings, PageSpaced, PageSpacedAgain>>),
       "doe.pdf">>,
     <<Result([cite_key |-> "lee2022", title |-> "Survey", authors |-> ManyAuthors],
              <<PageMany, PageSome>>), "lee.pdf">>}

\* arguments of the queries
Queries == {<< >>, <<"a">>, <<"A">>, <<".">>, <<"a", ".">>, <<"_">>}
Limits == {0, 1, RelatedLimit, SearchLimit}
OutputFiles == {"graph.json"}
Clock == {"2024-03-01T10:00:00", "2024-03-01T10:00:01"}

-----------------------------------------------------------------------------
(* Operations *)

Init ==
    /\ documents = << >>
    /\ pages = << >>
    /\ keywords = << >>
    /\ concept_network = << >>
    /\ sqlite_sequence = [pages |-> 0, keywords |-> 0, concept_network |-> 0]
    /\ pc = "idle"
    /\ log = << >>
    /\ pre = EmptyStore
    /\ fn = FnIdle
    /\ reply = NoReply
    /\ handles = 0

Entry(call, outcome) ==
    [result_data |-> call[1], file_path |-> call[2], outcome |-> outcome]

SetStore(st) ==
    /\ documents' = st.documents
    /\ pages' = st.pages
    /\ keywords' = st.keywords
    /\ concept_network' = st.concept_network
    /\ sqlite_sequence' = st.sqlite_sequence

\* add_extraction_result, lines 111-195: the first transaction commits
AddExtractionResult(call) ==
    /\ pc = "idle"
    /\ Len(log) < MaxCalls
    /\ SetStore(WriteDocument(Store, call[1], call[2]))
    /\ pc' = "build"
    /\ log' = Append(log, Entry(call, "running"))
    /\ pre' = Store
    /\ reply' = NoReply
    /\ UNCHANGED <<fn, handles>>

\* add_extraction_result raises before conn.commit() (a storage error, or a
\* value in result_data the code cannot handle): the connection is dropped
\* with its transaction open, which SQLite rolls back; conn.close() (line
\* 195) is not reached
AddExtractionResultFails(call) ==
    /\ pc = "idle"
    /\ Len(log) < MaxCalls
    /\ log' = Append(log, Entry(call, "failed"))
    /\ pre' = Store
    /\ reply' = NoReply
    /\ handles' = handles + 1
    /\ UNCHANGED <<documents, pages, keywords, concept_network,
                   sqlite_sequence, pc, fn>>

\* add_extraction_result, line 198: the second transaction commits and the
\* call returns
BuildConceptNetwork ==
    /\ pc = "build"
    /\ SetStore(BuildConceptNetworkForDocument(
                    Store, CiteKeyOf(log[Len(log)].result_data)))
    /\ pc' = "idle"
    /\ log' = [log EXCEPT ![Len(log)].outcome = "ok"]
    /\ UNCHANGED <<pre, fn, reply, handles>>

\* _build_concept_network_for_document raises before its conn.commit(): its
\* transaction is rolled back, the first one stays committed; its
\* conn.close() (line 260) is not reached
BuildConceptNetworkFails ==
    /\ pc = "build"
    /\ pc' = "idle"
    /\ log' = [log EXCEPT ![Len(log)].outcome = "failed"]
    /\ handles' = handles + 1
    /\ UNCHANGED <<documents, pages, keywords, concept_network,
                   sqlite_sequence, pre, fn, reply>>

Next ==
    \/ \E call \in Calls : AddExtractionResult(call)
    \/ \E call \in Calls : AddExtractionResultFails(call)
    \/ BuildConceptNetwork
    \/ BuildConceptNetworkFails

Spec == Init /\ [][Next]_vars

-----------------------------------------------------------------------------
(* The queries *)

\* search_keywords(query, limit)
SearchKeywords(query, limit) ==
    /\ pc = "idle"
    /\ reply = NoReply
    /\ reply' = [op |-> "search_keywords", query |-> query, limit |-> limit,
                 result |-> SearchKeywordsRows(Store, query, limit)]
    /\ UNCHANGED <<documents, pages, keywords, concept_network,
                   sqlite_sequence, pc, log, pre, fn, handles>>

\* get_related_concepts(concept, limit)
GetRelatedConcepts(concept, limit) ==
    /\ pc = "idle"
    /\ reply = NoReply
    /\ reply' = [op |-> "get_related_concepts", concept |-> concept,
                 limit |-> limit,
                 result |-> RelatedConceptsRows(Store, concept, limit)]
    /\ UNCHANGED <<documents, pages, keywords, concept_network,
                   sqlite_sequence, pc, log, pre, fn, handles>>

\* get_document_stats() resetting the AUTOINCREMENT counters
GetDocumentStatsResetting ==
    /\ pc = "idle"
    /\ reply = NoReply
    /\ reply' = [op |-> "get_document_stats", result |-> DocumentStats(Store)]
    /\ sqlite_sequence' = [pages |-> 0, keywords |-> 0, concept_network |-> 0]
    /\ UNCHANGED <<documents, pages, keywords, concept_network,
                   pc, log, pre, fn, handles>>

\* get_document_stats()
GetDocumentStats ==
    /\ pc = "idle"
    /\ reply = NoReply
    /\ reply' = [op |-> "get_document_stats", result |-> DocumentStats(Store)]
    /\ UNCHANGED <<documents, pages, keywords, concept_network,
                   sqlite_sequence, pc, log, pre, fn, handles>>

\* export_knowledge_graph(output_file) at the time datetime.now() reads
ExportKnowledgeGraph(output_file, now) ==
    /\ pc = "idle"
    /\ reply = NoReply
    /\ reply' = [op |-> "export_knowledge_graph", output_file |-> output_file,
                 written |-> GraphData(Store, now)]
    /\ UNCHANGED <<documents, pages, keywords, concept_network,
                   sqlite_sequence, pc, log, pre, fn, handles>>

\* init_database(), as a new KnowledgeTracker on the same file runs it
InitDatabase ==
    /\ pc = "idle"
    /\ reply \in {NoReply, [op |-> "init_database"]}
    /\ SetStore(InitDatabaseStore(Store))
    /\ reply' = [op |-> "init_database"]
    /\ UNCHANGED <<pc, log, pre, fn, handles>>

NextQuery ==
    \/ \E call \in Corpus : AddExtractionResult(call)
    \/ BuildConceptNetwork
    \/ \E query \in Queries : \E limit \in Limits : SearchKeywords(query, limit)
    \/ \E concept \in Queries : \E limit \in Limits :
          GetRelatedConcepts(concept, limit)
    \/ GetDocumentStats
    \/ \E output_file \in OutputFiles : \E now \in Clock :
          ExportKnowledgeGraph(output_file, now)
    \/ InitDatabase

\* the query layer over a corpus ingested without storage failures
SpecQuery == Init /\ [][NextQuery]_vars

-----------------------------------------------------------------------------
(* Connections *)

\* output files in a directory that does not exist
UnwritableFiles == {"missing/graph.json"}

\* the two results of the corpus for doe2023
DoeCalls == {call \in Corpus : CiteKeyOf(call[1]) = "doe2023"}

\* export_knowledge_graph(output_file) when open(output_file, "w") raises
\* (line 435): nothing is written, conn.close() (line 438) is not reached
ExportKnowledgeGraphFails(output_file) ==
    /\ pc = "idle"
    /\ reply = NoReply
    /\ reply' = [op |-> "export_knowledge_graph", output_file |-> output_file,
                 raised |-> "FileNotFoundError"]
    /\ handles' = handles + 1
    /\ UNCHANGED <<documents, pages, keywords, concept_network,
                   sqlite_sequence, pc, log, pre, fn>>

\* the interpreter frees a connection object that a raising operation left
\* behind, which closes it; when that happens is up to the interpreter and
\* to how long the caller keeps the exception
CollectGarbage ==
    /\ handles > 0
    /\ handles' = handles - 1
    /\ UNCHANGED <<documents, pages, keywords, concept_network,
                   sqlite_sequence, pc, log, pre, fn, reply>>

NextHandles ==
    \/ \E call \in DoeCalls : AddExtractionResult(call)
    \/ \E call \in DoeCalls : AddExtractionResultFails(call)
    \/ BuildConceptNetwork
    \/ BuildConceptNetworkFails
    \/ InitDatabase
    \/ \E query \in Queries : SearchKeywords(query, SearchLimit)
    \/ \E concept \in Queries : GetRelatedConcepts(concept, RelatedLimit)
    \/ GetDocumentStats
    \/ \E output_file \in OutputFiles : \E now \in Clock :
          ExportKnowledgeGraph(output_file, now)
    \/ \E output_file \in UnwritableFiles : ExportKnowledgeGraphFails(output_file)
    \/ CollectGarbage

\* every public operation, with the failures that leave a connection behind
SpecHandles == Init /\ [][NextHandles]_vars

-----------------------------------------------------------------------------
(* Interleaved calls *)

\* the first transaction of a call (lines 111-195) commits, whether or not
\* other calls are between their two transactions; the calls between their
\* transactions are the entries of log with outcome "running"
AddExtractionResultConcurrently(call) ==
    /\ Len(log) < MaxConcurrent
    /\ SetStore(WriteDocument(Store, call[1], call[2]))
    /\ pc' = "build"
    /\ log' = Append(log, Entry(call, "running"))
    /\ pre' = Store
    /\ reply' = NoReply
    /\ UNCHANGED <<fn, handles>>

\* the rebuild of call i from the keywords that call wrote, not from the
\* keyword rows of the store
BuildConceptNetworkOfOwn(i) ==
    /\ i \in 1..Len(log)
    /\ log[i].outcome = "running"
    /\ SetStore([BuildConceptNetworkForDocument(
                     [Store EXCEPT !.keywords =
                         WriteDocument(EmptyStore, log[i].result_data,
                                       log[i].file_path).keywords],
                     CiteKeyOf(log[i].result_data))
                  EXCEPT !.keywords = keywords])
    /\ log' = [log EXCEPT ![i].outcome = "ok"]
    /\ pc' = IF \E j \in 1..Len(log) : j # i /\ log[j].outcome = "running"
             THEN "build" ELSE "idle"
    /\ UNCHANGED <<pre, fn, reply, handles>>

\* the second transaction of call i (line 198) commits and the call returns:
\* the rebuild reads the keyword rows the store holds at that moment
BuildConceptNetworkOf(i) ==
    /\ i \in 1..Len(log)
    /\ log[i].outcome = "running"
    /\ SetStore(BuildConceptNetworkForDocument(
                    Store, CiteKeyOf(log[i].result_data)))
    /\ log' = [log EXCEPT ![i].outcome = "ok"]
    /\ pc' = IF \E j \in 1..Len(log) : j # i /\ log[j].outcome = "running"
             THEN "build" ELSE "idle"
    /\ UNCHANGED <<pre, fn, reply, handles>>

NextConcurrent ==
    \/ \E call \in Calls : AddExtractionResultConcurrently(call)
    \/ \E i \in 1..MaxConcurrent : BuildConceptNetworkOf(i)

\* calls interleaved at the granularity of their committed transactions
SpecConcurrent == Init /\ [][NextConcurrent]_vars

-----------------------------------------------------------------------------
(* The pure text functions on every small input *)

InitText ==
    /\ documents = << >>
    /\ pages = << >>
    /\ keywords = << >>
    /\ concept_network = << >>
    /\ sqlite_sequence = [pages |-> 0, keywords |-> 0, concept_network |-> 0]
    /\ pc = "idle"
    /\ log = << >>
    /\ pre = EmptyStore
    /\ reply = NoReply
    /\ handles = 0
    /\ \E k \in SeqsUpTo(Alphabet, MaxKeywordLen) :
       \E t \in SeqsUpTo(Alphabet, MaxTextLen) :
       \E w \in 0..MaxWindow :
          fn = FnInput(k, t, w)

\* one turn of "for keyword in page_keywords" (lines 170-192) for a page that
\* has the text and the keyword, and _extract_keyword_context with the window
ComputeKeyword ==
    /\ fn.phase = "in"
    /\ fn' = [phase |-> "out", keyword |-> fn.keyword, text |-> fn.text,
              window |-> fn.window,
              row |-> KeywordRow(1, "smith2024",
                                 [page_num |-> 1, keywords |-> <<fn.keyword>>,
                                  processed_text |-> fn.text],
                                 fn.keyword),
              context |-> ExtractKeywordContext(fn.keyword, fn.text, fn.window)]
    /\ UNCHANGED <<documents, pages, keywords, concept_network,
                   sqlite_sequence, pc, log, pre, reply, handles>>

NextText == ComputeKeyword

SpecText == InitText /\ [][NextText]_vars

-----------------------------------------------------------------------------
(* Vocabulary of the properties *)

\* a row without its auto-generated id
NoId(row) == [f \in DOMAIN row \ {"id"} |-> row[f]]

NoIds(rows) == [i \in 1..Len(rows) |-> NoId(rows[i])]

\* the four tables, row ids ignored
Content(st) ==
    [documents |-> st.documents, pages |-> NoIds(st.pages),
     keywords |-> NoIds(st.keywords),
     concept_network |-> NoIds(st.concept_network)]

\* the rows of a table owned by a citation key
OwnedBy(rows, cite_key) == SelectSeq(rows, LAMBDA r : r.cite_key = cite_key)

LastCall == log[Len(log)]

\* the latest call has returned normally
Returned == pc = "idle" /\ log # << >> /\ LastCall.outcome = "ok"

\* the latest call has raised
Raised == pc = "idle" /\ log # << >> /\ LastCall.outcome = "failed"

\* every call so far has returned normally
AllReturned == pc = "idle" /\ \A i \in 1..Len(log) : log[i].outcome = "ok"

PagesOf(result_data) == Get(result_data, "pages", EmptyList)

PageKeywords(page_data) == Get(page_data, "keywords", EmptyList)

\* <<i, j>>: entry j of the keyword list of page i of a result
KeywordSlots(result_data) ==
    UNION {{<<i, j>> : j \in 1..Len(PageKeywords(PagesOf(result_data)[i]))} :
              i \in 1..Len(PagesOf(result_data))}

\* the lower-case keywords a result assigns to its pages
KeywordsOf(result_data) ==
    {Lower(PageKeywords(PagesOf(result_data)[s[1]])[s[2]]) :
        s \in KeywordSlots(result_data)}

\* the number of keyword-list entries on the pages before page i
EntriesBefore(result_data, i) ==
    Cardinality({s \in KeywordSlots(result_data) : s[1] < i})

-----------------------------------------------------------------------------
\* C1: when add_extraction_result(R, path) has just returned twice in a row
\* with the same arguments, the four tables hold, row ids ignored, the rows
\* they held after the first of the two calls.
C1_Idempotent ==
    (pc = "idle" /\ Len(log) >= 2 /\ LastCall.outcome = "ok"
        /\ log[Len(log) - 1] = LastCall)
    => Content(Store) = Content(pre)

\* the same call returned twice in a row on a store that already held another
\* document, and the call wrote pages, keywords and edges
C1_Witness ==
    /\ pc = "idle" /\ Len(log) = 3 /\ LastCall.outcome = "ok"
    /\ log[2] = log[3]
    /\ log[1].outcome = "ok"
    /\ CiteKeyOf(log[1].result_data) # CiteKeyOf(log[3].result_data)
    /\ Len(OwnedBy(pages, CiteKeyOf(log[3].result_data))) = 2
    /\ Len(OwnedBy(concept_network, CiteKeyOf(log[3].result_data))) > 0
    /\ Len(OwnedBy(keywords, CiteKeyOf(log[1].result_data))) > 0

-----------------------------------------------------------------------------
\* C2: when add_extraction_result has returned for citation key K, the page
\* rows of K are the pages of the new result in order, the keyword rows of K
\* are its keyword-list entries in order, and the edge rows of K join every
\* two distinct keywords of the new result exactly once (the inputs have at
\* most 20 distinct keywords); K has its document row.
C2_CascadeCorrect ==
    Returned =>
        LET R  == LastCall.result_data
            K  == CiteKeyOf(R)
            ps == PagesOf(R)
            kr == OwnedBy(keywords, K)
            er == OwnedBy(concept_network, K)
            kw == KeywordsOf(R)
        IN  /\ Len(OwnedBy(documents, K)) = 1
            /\ Len(OwnedBy(pages, K)) = Len(ps)
            /\ \A i \in 1..Len(ps) :
                  /\ OwnedBy(pages, K)[i].page_num = Get(ps[i], "page_num", 0)
                  /\ OwnedBy(pages, K)[i].content_type = Get(ps[i], "content_type", "main")
                  /\ JsonLoads(OwnedBy(pages, K)[i].keywords) = Get(ps[i], "keywords", EmptyList)
            /\ Len(kr) = Cardinality(KeywordSlots(R))
            /\ \A s \in KeywordSlots(R) :
                  LET row == kr[EntriesBefore(R, s[1]) + s[2]] IN
                  /\ row.keyword = Lower(PageKeywords(ps[s[1]])[s[2]])
                  /\ row.page_num = Get(ps[s[1]], "page_num", 0)
            /\ \A i \in 1..Len(er) :
                  er[i].concept \in kw /\ er[i].related_concept \in kw
                  /\ er[i].concept # er[i].related_concept
            /\ \A a, b \in kw : a # b =>
                  Cardinality({i \in 1..Len(er) :
                      {er[i].concept, er[i].related_concept} = {a, b}}) = 1
            /\ 2 * Len(er) = Cardinality(kw) * (Cardinality(kw) - 1)

\* K was ingested with two pages and is re-ingested with an empty page list:
\* it keeps its document row and owns no page, keyword or edge row
C2_Witness ==
    /\ Returned /\ Len(log) >= 2
    /\ log[Len(log) - 1].outcome = "ok"
    /\ CiteKeyOf(log[Len(log) - 1].result_data) = CiteKeyOf(LastCall.result_data)
    /\ Len(PagesOf(log[Len(log) - 1].result_data)) = 2
    /\ PagesOf(LastCall.result_data) = << >>
    /\ Len(OwnedBy(pre.concept_network, CiteKeyOf(LastCall.result_data))) > 0
    /\ Len(OwnedBy(documents, CiteKeyOf(LastCall.result_data))) = 1
    /\ OwnedBy(pages, CiteKeyOf(LastCall.result_data)) = << >>

-----------------------------------------------------------------------------
\* C3: when add_extraction_result has raised (here for a result that has a
\* citation key), the committed tables are the tables of the moment the call
\* started.
C3_AllOrNothing ==
    (Raised /\ CiteKeyOf(LastCall.result_data) # "") => Store = pre

-----------------------------------------------------------------------------
\* C4: a call whose result has no cite_key, or an empty one, raises and
\* leaves the tables as they were when it started.
C4_RejectsMissingCiteKey ==
    (log # << >> /\ CiteKeyOf(LastCall.result_data) = "")
    => (LastCall.outcome = "failed" /\ Store = pre)

-----------------------------------------------------------------------------
\* C5: when every call so far has returned, the documents table has exactly
\* one row for every citation key ingested, and the row holds the title,
\* authors in order, year, keywords, key concepts, page count, extraction
\* date, file path and processing time of the latest call for that key.
IngestedKeys == {CiteKeyOf(log[i].result_data) : i \in 1..Len(log)}

\* the index in log of the latest call for a key
LatestCallFor(cite_key) ==
    CHOOSE i \in 1..Len(log) :
        /\ CiteKeyOf(log[i].result_data) = cite_key
        /\ \A j \in (i + 1)..Len(log) : CiteKeyOf(log[j].result_data) # cite_key

C5_OneRowPerKeyLatestWins ==
    AllReturned =>
        /\ {documents[i].cite_key : i \in 1..Len(documents)} = IngestedKeys
        /\ Len(documents) = Cardinality(IngestedKeys)
        /\ \A i \in 1..Len(documents) :
              LET e == log[LatestCallFor(documents[i].cite_key)]
                  m == Get(e.result_data, "metadata", EmptyDict)
                  d == documents[i]
              IN  /\ d.title = Get(m, "title", "")
                  /\ JsonLoads(d.authors) = Get(m, "authors", EmptyList)
                  /\ d.year = Get(m, "year", "")
                  /\ JsonLoads(d.keywords) = Get(m, "keywords", EmptyList)
                  /\ JsonLoads(d.key_concepts) = Get(e.result_data, "key_concepts", EmptyList)
                  /\ d.page_count = Get(m, "page_count", 0)
                  /\ d.extraction_date = Get(m, "extraction_date", "")
                  /\ d.file_path = e.file_path
                  /\ d.processing_time = Get(m, "processing_time", 0)

\* one key ingested twice with different metadata and path, another key once
C5_Witness ==
    /\ AllReturned /\ Len(log) = 3
    /\ Len(documents) = 2
    /\ CiteKeyOf(log[1].result_data) = CiteKeyOf(log[3].result_data)
    /\ CiteKeyOf(log[2].result_data) # CiteKeyOf(log[3].result_data)
    /\ Get(log[1].result_data, "metadata", EmptyDict)
         # Get(log[3].result_data, "metadata", EmptyDict)
    /\ log[1].file_path # log[3].file_path
    /\ JsonLoads(documents[2].authors) = << <<"a", " ", "A">>, <<"A">> >>

-----------------------------------------------------------------------------
\* C6: no two rows of the pages table have the same citation key and page
\* number.
C6_PageUnique ==
    \A i, j \in 1..Len(pages) :
        i # j => <<pages[i].cite_key, pages[i].page_num>>
                    # <<pages[j].cite_key, pages[j].page_num>>

-----------------------------------------------------------------------------
\* C7: no two rows of the keywords table have the same keyword, citation key
\* and page number (stated for the states where page numbers are unique, so
\* that two rows can only come from one page's keyword list).
C7_KeywordOccurrenceUnique ==
    C6_PageUnique =>
        \A i, j \in 1..Len(keywords) :
            i # j => <<keywords[i].keyword, keywords[i].cite_key, keywords[i].page_num>>
                        # <<keywords[j].keyword, keywords[j].cite_key, keywords[j].page_num>>

-----------------------------------------------------------------------------
\* C8: every keyword row holds its keyword in lower case and a frequency of
\* at least 0.
UpperCase == {"A", "B"}

C8_LowerCaseNonNegative ==
    \A i \in 1..Len(keywords) :
        /\ \A j \in 1..Len(keywords[i].keyword) : keywords[i].keyword[j] \notin UpperCase
        /\ keywords[i].frequency >= 0

\* a keyword given in upper case is stored, and rows with frequency 0 and
\* with a positive frequency exist
C8_Witness ==
    /\ Returned
    /\ \E s \in KeywordSlots(LastCall.result_data) :
          /\ PageKeywords(PagesOf(LastCall.result_data)[s[1]])[s[2]] = <<"A">>
          /\ \E i \in 1..Len(keywords) :
                keywords[i].keyword = <<"a">> /\ keywords[i].frequency > 0
    /\ \E i \in 1..Len(keywords) : keywords[i].frequency = 0

-----------------------------------------------------------------------------
(* Occurrences of a keyword in a text *)

\* the keyword is at 0-based index i of the text, letter case ignored
OccursAt(keyword, text, i) ==
    /\ i + Len(keyword) <= Len(text)
    /\ \A j \in 1..Len(keyword) : LowerChar(text[i + j]) = LowerChar(keyword[j])

Occurrences(keyword, text) == {i \in 0..Len(text) : OccursAt(keyword, text, i)}

\* no two of the occurrences share a character
Disjoint(S, keyword) ==
    \A a, b \in S : a < b => a + Len(keyword) <= b

\* the largest number of occurrences no two of which share a character
DisjointOccurrences(keyword, text) ==
    LET sizes == {Cardinality(S) : S \in {T \in SUBSET Occurrences(keyword, text) :
                                              Disjoint(T, keyword)}}
    IN  CHOOSE n \in sizes : \A m \in sizes : m <= n

-----------------------------------------------------------------------------
\* C9 as claimed: the frequency of the keyword row is the number of
\* occurrences of the keyword in the page text, letter case ignored, the
\* keyword taken literally.
C9_FrequencyIsOccurrences ==
    fn.phase = "out" =>
        fn.row.frequency = Cardinality(Occurrences(fn.keyword, fn.text))

\* C9 as amended: the frequency of the keyword row is the number of
\* non-overlapping occurrences of the keyword in the page text, letter case
\* ignored, the keyword taken literally: the largest number of occurrences no
\* two of which share a character.  It is 0 when the keyword does not occur.
C9_FrequencyIsDisjointOccurrences ==
    fn.phase = "out" =>
        /\ fn.row.frequency = DisjointOccurrences(fn.keyword, fn.text)
        /\ (Occurrences(fn.keyword, fn.text) = {} => fn.row.frequency = 0)

\* a keyword with a pattern character that occurs twice, in two letter cases,
\* in a text where the pattern character would match other characters too
C9_Witness ==
    /\ fn.phase = "out"
    /\ fn.keyword = <<".", "A">>
    /\ fn.text = <<".", "a", ".", "A">>
    /\ fn.row.frequency = 2

-----------------------------------------------------------------------------
\* C10: _extract_keyword_context returns the empty string when the keyword
\* does not occur; otherwise, with pos the first occurrence, start =
\* max(0, pos - window/2) and end = min(len(text), pos + len(keyword) +
\* window/2), it returns text[start:end] without its leading and trailing
\* whitespace, with "..." in front exactly when start > 0 and "..." behind
\* exactly when end < len(text).
FirstOccurrence(keyword, text) ==
    CHOOSE i \in Occurrences(keyword, text) :
        \A j \in Occurrences(keyword, text) : i <= j

WindowStart(keyword, text, window) ==
    LET p == FirstOccurrence(keyword, text) - (window \div 2)
    IN  IF p > 0 THEN p ELSE 0

WindowEnd(keyword, text, window) ==
    LET p == FirstOccurrence(keyword, text) + Len(keyword) + (window \div 2)
    IN  IF p < Len(text) THEN p ELSE Len(text)

\* text[start:end] from its first to its last character that is no whitespace
Trimmed(text, start, end) ==
    LET solid == {i \in (start + 1)..end : text[i] \notin Whitespace}
    IN  IF solid = {} THEN << >>
        ELSE SubSeq(text, CHOOSE i \in solid : \A j \in solid : i <= j,
                          CHOOSE i \in solid : \A j \in solid : j <= i)

-----------------------------------------------------------------------------
\* C11: when the keyword occurs in the text, letter case ignored, the snippet
\* of _extract_keyword_context contains the keyword, letter case ignored, and
\* is at most window + len(keyword) + 6 characters long.
C11_ContainsKeywordBounded ==
    (fn.phase = "out" /\ Occurrences(fn.keyword, fn.text) # {}) =>
        /\ Occurrences(fn.keyword, fn.context) # {}
        /\ Len(fn.context) <= fn.window + Len(fn.keyword) + 6

-----------------------------------------------------------------------------
(* Keywords and edges of one citation key *)

\* the latest add_extraction_result call for the key has returned
Completed(cite_key) ==
    /\ pc = "idle"
    /\ cite_key \in IngestedKeys
    /\ log[LatestCallFor(cite_key)].outcome = "ok"

\* <<keyword, number of keyword rows>> for the keywords of the key
RowCounts(cite_key) ==
    LET own == {i \in 1..Len(keywords) : keywords[i].cite_key = cite_key}
    IN  {<<kw, Cardinality({i \in own : keywords[i].keyword = kw})>> :
            kw \in {keywords[i].keyword : i \in own}}

\* <<concept, related_concept>> of the edge rows of the key, in id order
EdgePairs(cite_key) ==
    LET er == OwnedBy(concept_network, cite_key)
    IN  [i \in 1..Len(er) |-> <<er[i].concept, er[i].related_concept>>]

-----------------------------------------------------------------------------
\* C12: when the latest add_extraction_result call for citation key K has
\* returned and the keyword rows of K hold n distinct keywords, K owns
\* m*(m-1)/2 edge rows where m is the smaller of n and 20; it never owns more
\* than 190, and each of its edge rows has co-occurrence weight 1.
C12_EdgeCount ==
    \A K \in IngestedKeys : Completed(K) =>
        LET n  == Cardinality(RowCounts(K))
            m  == IF n < 20 THEN n ELSE 20
            er == OwnedBy(concept_network, K)
        IN  /\ 2 * Len(er) = m * (m - 1)
            /\ Len(er) <= 190
            /\ \A i \in 1..Len(er) : er[i].co_occurrence_count = 1

\* one key has more than 20 distinct keywords and 190 edge rows, another has
\* fewer than 20 and at least one edge row
C12_Witness ==
    \E K1, K2 \in IngestedKeys :
        /\ Completed(K1) /\ Completed(K2)
        /\ Cardinality(RowCounts(K1)) > 20
        /\ Len(OwnedBy(concept_network, K1)) = 190
        /\ Cardinality(RowCounts(K2)) \in 2..19
        /\ Len(OwnedBy(concept_network, K2)) > 0

-----------------------------------------------------------------------------
\* C13: for every edge row (A, B, K) of a key K whose latest call has
\* returned: A and B are distinct, both have keyword rows under K, fewer than
\* 20 keywords of K have more keyword rows than A, and the same for B, A has
\* at least as many keyword rows under K as B, and no other edge row of K
\* joins A and B in either direction.
C13_EdgeShape ==
    \A K \in IngestedKeys : Completed(K) =>
        \A counts \in {RowCounts(K)} : \A pairs \in {EdgePairs(K)} :
        \A top \in {{c \in counts : Cardinality({x \in counts : x[2] > c[2]}) < 20}} :
            /\ \A i \in 1..Len(pairs) :
                  /\ pairs[i][1] # pairs[i][2]
                  /\ \E a \in top :
                        /\ a[1] = pairs[i][1]
                        /\ \E b \in top : b[1] = pairs[i][2] /\ a[2] >= b[2]
            /\ Cardinality({{pairs[i][1], pairs[i][2]} : i \in 1..Len(pairs)})
                  = Len(pairs)

\* a key with more than 20 distinct keywords: an edge row joins a keyword to
\* one with fewer keyword rows, and a keyword of the key is on no edge row
C13_Witness ==
    \E K \in IngestedKeys :
        /\ Completed(K)
        /\ Cardinality(RowCounts(K)) > 20
        /\ \E i \in 1..Len(EdgePairs(K)) : \E a, b \in RowCounts(K) :
              /\ a[1] = EdgePairs(K)[i][1] /\ b[1] = EdgePairs(K)[i][2]
              /\ a[2] > b[2]
        /\ \E c \in RowCounts(K) : \A i \in 1..Len(EdgePairs(K)) :
              c[1] \notin {EdgePairs(K)[i][1], EdgePairs(K)[i][2]}

-----------------------------------------------------------------------------
(***************************************************************************)
(* Replies of the query layer                                              *)
(***************************************************************************)
\* the concepts joined to the concept by an edge row, in either direction
Neighbours(concept) ==
    {concept_network[i].related_concept :
        i \in {j \in 1..Len(concept_network) :
                  concept_network[j].concept = concept}}
    \cup {concept_network[i].concept :
        i \in {j \in 1..Len(concept_network) :
                  concept_network[j].related_concept = concept}}

\* the keywords on the edge rows of the key: its top keyword list
EdgeKeywords(cite_key) ==
    {EdgePairs(cite_key)[i][1] : i \in 1..Len(EdgePairs(cite_key))}
    \cup {EdgePairs(cite_key)[i][2] : i \in 1..Len(EdgePairs(cite_key))}

\* C14: when get_related_concepts(A, limit) is called for a keyword A of the
\* top keyword list of a key K whose latest call has returned, and A has at
\* most limit related concepts, the reply holds an entry with total weight at
\* least 1 for every other keyword B of that list, whichever of A and B ranks
\* higher in the list.
C14_EdgeSymmetry ==
    reply.op = "get_related_concepts" =>
        \A K \in IngestedKeys : Completed(K) =>
            \A list \in {EdgeKeywords(K)} :
                (/\ reply.concept \in list
                 /\ Cardinality(Neighbours(reply.concept)) <= reply.limit) =>
                    \A B \in list \ {reply.concept} :
                        \E r \in 1..Len(reply.result) :
                            /\ reply.result[r][1] = B
                            /\ reply.result[r][2] >= 1

\* the keyword rows whose keyword contains the text as a literal substring,
\* compared case-insensitively
RowsContaining(text) ==
    {i \in 1..Len(keywords) : Occurrences(text, keywords[i].keyword) # {}}

\* the record of keyword row i: the row's keyword, context and page number
\* with the citation key, title and author list of the owning document
RecordOf(i) ==
    LET owner == CHOOSE j \in 1..Len(documents) :
                    documents[j].cite_key = keywords[i].cite_key
    IN  [cite_key |-> keywords[i].cite_key, title |-> documents[owner].title,
         authors |-> JsonLoads(documents[owner].authors),
         keyword |-> keywords[i].keyword, context |-> keywords[i].context,
         page_num |-> keywords[i].page_num]

\* C15: when search_keywords(query, limit) is called with limit at least the
\* number of keyword rows whose keyword contains the query as a literal
\* substring (case-insensitively), the reply holds one record per such row
\* and no other record: as many records as rows, and every record value is
\* in the reply as many times as there are such rows with that record.
C15_SearchFindsSubstringRows ==
    reply.op = "search_keywords" =>
        \A matching \in {RowsContaining(reply.query)} :
            reply.limit >= Cardinality(matching) =>
                /\ Len(reply.result) = Cardinality(matching)
                /\ \A r \in 1..Len(reply.result) :
                      Cardinality({q \in 1..Len(reply.result) :
                                      reply.result[q] = reply.result[r]})
                      = Cardinality({i \in matching :
                                      RecordOf(i) = reply.result[r]})

\* the keyword rows the search for the text selects
RowsMatching(text) ==
    {i \in 1..Len(keywords) : Like(keywords[i].keyword, ContainsPattern(text))}

\* C16: the reply of search_keywords(query, limit) holds at most limit
\* records; of two records, the earlier one is made from a row whose stored
\* frequency is at least that of a row of the later one; and when more than
\* limit rows match, no matching row left out of the reply has a strictly
\* higher stored frequency than a row of a record of the reply.
C16_SearchCappedAndOrdered ==
    reply.op = "search_keywords" =>
        \A matching \in {RowsMatching(reply.query)} :
        \A rowsOf \in {{<<r, i>> \in (1..Len(reply.result)) \X matching :
                            RecordOf(i) = reply.result[r]}} :
            /\ Len(reply.result) <= reply.limit
            /\ \A r \in 1..(Len(reply.result) - 1) :
                  \E a, b \in rowsOf :
                      /\ a[1] = r /\ b[1] = r + 1
                      /\ keywords[a[2]].frequency >= keywords[b[2]].frequency
            /\ Cardinality(matching) > reply.limit =>
                  \A i \in matching \ {x[2] : x \in rowsOf} : \A b \in rowsOf :
                      keywords[i].frequency <= keywords[b[2]].frequency

\* the edge rows whose first concept contains the text as a literal
\* substring, compared case-insensitively
EdgesContaining(text) ==
    {i \in 1..Len(concept_network) :
        Occurrences(text, concept_network[i].concept) # {}}

\* C17: the reply of get_related_concepts(concept, limit) holds at most limit
\* pairs (B, total), no two with the same B, as many as there are distinct
\* second concepts among the edge rows whose first concept contains concept
\* as a literal case-insensitive substring (or limit, if that is fewer); B is
\* such a second concept and total the sum of the weights of those rows with
\* second concept B over all documents; the totals are in non-increasing order.
C17_RelatedConcepts ==
    reply.op = "get_related_concepts" =>
        \A matched \in {EdgesContaining(reply.concept)} :
        \A seconds \in {{concept_network[i].related_concept : i \in matched}} :
            /\ Len(reply.result) <= reply.limit
            /\ Len(reply.result) = IF Cardinality(seconds) < reply.limit
                                   THEN Cardinality(seconds) ELSE reply.limit
            /\ \A r \in 1..Len(reply.result) :
                  /\ reply.result[r][1] \in seconds
                  /\ reply.result[r][2] =
                        SumCounts(concept_network,
                                  {i \in matched : concept_network[i].related_concept
                                                      = reply.result[r][1]})
                  /\ \A q \in 1..(r - 1) :
                        /\ reply.result[q][1] # reply.result[r][1]
                        /\ reply.result[q][2] >= reply.result[r][2]

\* <<K, i>>: page i of the latest result ingested for key K
LatestPages ==
    UNION {{<<K, i>> : i \in 1..Len(PagesOf(log[LatestCallFor(K)].result_data))} :
              K \in IngestedKeys}

\* C18: when every add_extraction_result call so far has returned normally,
\* the reply of get_document_stats has document_count equal to the number of
\* distinct citation keys ingested, page_count equal to the number of pages
\* of the latest results of all keys, total_keyword_instances equal to the
\* number of keyword rows, unique_keywords equal to the number of distinct
\* stored keywords and at most total_keyword_instances, and top_keywords
\* holding at most 10 pairs of a keyword and the number of its rows, in
\* non-increasing order of that number.
C18_StatsConsistent ==
    (reply.op = "get_document_stats" /\ AllReturned) =>
        \A stats \in {reply.result} :
            /\ stats.document_count = Cardinality(IngestedKeys)
            /\ stats.page_count = Cardinality(LatestPages)
            /\ stats.total_keyword_instances = Len(keywords)
            /\ stats.unique_keywords
                  = Cardinality({keywords[i].keyword : i \in 1..Len(keywords)})
            /\ stats.unique_keywords <= stats.total_keyword_instances
            /\ Len(stats.top_keywords) <= 10
            /\ \A r \in 1..Len(stats.top_keywords) :
                  /\ stats.top_keywords[r][2]
                        = Cardinality({i \in 1..Len(keywords) :
                              keywords[i].keyword = stats.top_keywords[r][1]})
                  /\ r > 1 => stats.top_keywords[r - 1][2] >= stats.top_keywords[r][2]

\* statistics of a store with two documents, one of them ingested twice with
\* different page lists, more than 10 distinct keywords and a keyword with
\* several rows
C18_Witness ==
    /\ reply.op = "get_document_stats" /\ AllReturned
    /\ reply.result.document_count = 2
    /\ Len(log) = 3
    /\ \E i, j \in 1..Len(log) :
          /\ i < j
          /\ CiteKeyOf(log[i].result_data) = CiteKeyOf(log[j].result_data)
          /\ Len(PagesOf(log[i].result_data)) # Len(PagesOf(log[j].result_data))
    /\ reply.result.unique_keywords > 10
    /\ Len(reply.result.top_keywords) = 10
    /\ reply.result.top_keywords[1][2] > reply.result.top_keywords[10][2]
    /\ reply.result.unique_keywords < reply.result.total_keyword_instances

\* C19: top_authors in the reply of get_document_stats holds at most 10
\* (author, count) pairs in non-increasing count order, and each count is the
\* number of stored documents whose author list contains that author.
C19_TopAuthorsPaperCount ==
    reply.op = "get_document_stats" =>
        \A top \in {reply.result.top_authors} :
            /\ Len(top) <= 10
            /\ \A r \in 1..Len(top) :
                  /\ r > 1 => top[r - 1][2] >= top[r][2]
                  /\ top[r][2] =
                        Cardinality({d \in 1..Len(documents) :
                            \E a \in 1..Len(JsonLoads(documents[d].authors)) :
                                JsonLoads(documents[d].authors)[a] = top[r][1]})

\* <<keyword, number of keyword rows over all documents>> for the keywords
\* with more than 2 keyword rows
QualifyingKeywords ==
    {c \in {<<kw, Cardinality({i \in 1..Len(keywords) : keywords[i].keyword = kw})>> :
               kw \in {keywords[i].keyword : i \in 1..Len(keywords)}} : c[2] > 2}

\* C20: the graph export_knowledge_graph writes has at most 100 nodes and at
\* most 200 edges; every node is a keyword with more than 2 keyword rows over
\* all documents and every edge has weight greater than 1; when more than 100
\* keywords have more than 2 rows, exactly 100 nodes are written and no
\* keyword left out has strictly more rows than a written one;
\* metadata.node_count and metadata.edge_count are the lengths of the node
\* and edge lists.
C20_ExportCaps ==
    reply.op = "export_knowledge_graph" =>
        \A graph \in {reply.written} : \A qualifying \in {QualifyingKeywords} :
            /\ Len(graph.nodes) <= 100
            /\ Len(graph.edges) <= 200
            /\ \A n \in 1..Len(graph.nodes) :
                  \E c \in qualifying : c[1] = graph.nodes[n].id
            /\ \A e \in 1..Len(graph.edges) : graph.edges[e].weight > 1
            /\ Cardinality(qualifying) > 100 =>
                  /\ Len(graph.nodes) = 100
                  /\ \A c \in qualifying :
                        (\A n \in 1..Len(graph.nodes) : graph.nodes[n].id # c[1]) =>
                            \A n \in 1..Len(graph.nodes) :
                                \E w \in qualifying :
                                    w[1] = graph.nodes[n].id /\ w[2] >= c[2]
            /\ graph.metadata.node_count = Len(graph.nodes)
            /\ graph.metadata.edge_count = Len(graph.edges)

-----------------------------------------------------------------------------
\* C21: on a store with no document row every query returns: search_keywords
\* and get_related_concepts reply the empty list, get_document_stats replies
\* 0 for its four counts and empty top_keywords, top_authors and
\* year_distribution, and export_knowledge_graph writes empty node and edge
\* lists with node_count = edge_count = 0.
C21_EmptyStoreQueries ==
    (documents = << >> /\ reply.op \in {"search_keywords", "get_related_concepts",
                                        "get_document_stats", "export_knowledge_graph"}) =>
        \/ /\ reply.op \in {"search_keywords", "get_related_concepts"}
           /\ reply.result = << >>
        \/ /\ reply.op = "get_document_stats"
           /\ reply.result.document_count = 0
           /\ reply.result.page_count = 0
           /\ reply.result.unique_keywords = 0
           /\ reply.result.total_keyword_instances = 0
           /\ reply.result.top_keywords = << >>
           /\ reply.result.top_authors = << >>
           /\ reply.result.year_distribution = << >>
        \/ /\ reply.op = "export_knowledge_graph"
           /\ reply.written.nodes = << >>
           /\ reply.written.edges = << >>
           /\ reply.written.metadata.node_count = 0
           /\ reply.written.metadata.edge_count = 0

\* get_document_stats has replied on a store into which nothing was ingested
C21_Witness ==
    /\ documents = << >> /\ log = << >>
    /\ reply.op = "get_document_stats"

-----------------------------------------------------------------------------
\* the operations that only read the store
QueryOps == {"search_keywords", "get_related_concepts", "get_document_stats",
             "export_knowledge_graph"}

\* C22: a step of search_keywords, get_related_concepts, get_document_stats
\* or export_knowledge_graph leaves the four tables and the row id counters
\* as they were, in every state of the store and for every argument; what
\* export_knowledge_graph writes goes to its output file only.
C22_QueriesReadOnly ==
    [][(reply' # reply /\ reply'.op \in QueryOps) =>
          UNCHANGED <<documents, pages, keywords, concept_network,
                      sqlite_sequence>>]_vars

\* a query has replied between two ingestions, on tables that hold rows
C22_Witness ==
    /\ reply.op \in QueryOps
    /\ Len(log) \in 1..(MaxCalls - 1)
    /\ documents # << >> /\ pages # << >> /\ keywords # << >>
    /\ concept_network # << >>

-----------------------------------------------------------------------------
\* C23: a step of init_database on a store that has the schema returns and
\* leaves every row of the four tables, and the row id counters, as they
\* were, whatever rows the tables hold and however often it is repeated.
C23_InitDatabaseIdempotent ==
    [][reply'.op = "init_database" =>
          UNCHANGED <<documents, pages, keywords, concept_network,
                      sqlite_sequence>>]_vars

\* init_database has returned between two ingestions, on tables that hold rows
C23_Witness ==
    /\ reply.op = "init_database"
    /\ Len(log) \in 1..(MaxCalls - 1)
    /\ documents # << >> /\ pages # << >> /\ keywords # << >>
    /\ concept_network # << >>

-----------------------------------------------------------------------------
\* C24: whenever no operation is running, after any sequence of
\* init_database, add_extraction_result, search_keywords,
\* get_document_stats, get_related_concepts and export_knowledge_graph
\* calls, those that raised included, no connection to the store is open.
C24_NoOpenHandles ==
    pc = "idle" => handles = 0

-----------------------------------------------------------------------------
\* the content-type labels
ContentTypes == {"abstract", "introduction", "methods", "results", "discussion",
                 "conclusion", "references", "appendix", "main"}

\* C25: in every state of the store the content_type of every page row is one
\* of abstract, introduction, methods, results, discussion, conclusion,
\* references, appendix and main, whatever content_type the ingested pages
\* carried.
C25_ContentTypeLabels ==
    \A i \in 1..Len(pages) : pages[i].content_type \in ContentTypes

-----------------------------------------------------------------------------
\* the citation keys that own a row of some table
OwningKeys ==
    {documents[i].cite_key : i \in 1..Len(documents)}
    \cup {pages[i].cite_key : i \in 1..Len(pages)}
    \cup {keywords[i].cite_key : i \in 1..Len(keywords)}
    \cup {concept_network[i].cite_key : i \in 1..Len(concept_network)}

\* C26: every step of an add_extraction_result call for citation key K, its
\* first commit, its rebuild of the edges and either of them raising, leaves
\* the document, page, keyword and edge rows of every other citation key as
\* they were, row ids included.
C26_IngestionFrame ==
    [][log' # log =>
          \A K2 \in OwningKeys \ {CiteKeyOf(log'[Len(log')].result_data)} :
              /\ OwnedBy(documents', K2) = OwnedBy(documents, K2)
              /\ OwnedBy(pages', K2) = OwnedBy(pages, K2)
              /\ OwnedBy(keywords', K2) = OwnedBy(keywords, K2)
              /\ OwnedBy(concept_network', K2) = OwnedBy(concept_network, K2)]_vars

\* a call for a key that owned rows has returned, and another key owns rows
\* of all four tables
C26_Witness ==
    /\ Returned /\ Len(log) = MaxCalls
    /\ OwnedBy(pre.keywords, CiteKeyOf(LastCall.result_data)) # << >>
    /\ OwnedBy(pre.concept_network, CiteKeyOf(LastCall.result_data)) # << >>
    /\ \E K2 \in OwningKeys \ {CiteKeyOf(LastCall.result_data)} :
          /\ OwnedBy(documents, K2) # << >> /\ OwnedBy(pages, K2) # << >>
          /\ OwnedBy(keywords, K2) # << >> /\ OwnedBy(concept_network, K2) # << >>

-----------------------------------------------------------------------------
\* C27: in every committed state of the store, the state between the commit
\* of the page and keyword rows of a call and the commit of its rebuilt edges
\* included, every concept_network row (A, B, K) has keyword rows for A and
\* for B under K, and K has a document row.
C27_EdgesReferToKeywords ==
    \A e \in 1..Len(concept_network) :
        /\ \E i \in 1..Len(keywords) :
              /\ keywords[i].cite_key = concept_network[e].cite_key
              /\ keywords[i].keyword = concept_network[e].concept
        /\ \E i \in 1..Len(keywords) :
              /\ keywords[i].cite_key = concept_network[e].cite_key
              /\ keywords[i].keyword = concept_network[e].related_concept
        /\ \E d \in 1..Len(documents) :
              documents[d].cite_key = concept_network[e].cite_key

-----------------------------------------------------------------------------
\* the citation keys whose top keyword list holds both keywords
KeysJoining(A, B) ==
    {K \in IngestedKeys : \E i \in 1..Len(concept_network) :
        /\ concept_network[i].cite_key = K
        /\ {concept_network[i].concept, concept_network[i].related_concept} = {A, B}}

\* C28: in the graph export_knowledge_graph writes, the weight of the pair of
\* two distinct keywords A and B is the number of stored documents whose top
\* keyword list holds both, whatever their rank order in each document: every
\* written edge has that weight, and every pair that is in the list of at
\* least two documents is a written edge (when the cap of 200 edges is not
\* reached).
C28_PairWeightOverDocuments ==
    (reply.op = "export_knowledge_graph" /\ AllReturned) =>
        \A edges \in {reply.written.edges} :
            /\ \A e \in 1..Len(edges) :
                  edges[e].weight
                      = Cardinality(KeysJoining(edges[e].source, edges[e].target))
            /\ Len(edges) < 200 =>
                  \A i \in 1..Len(concept_network) :
                      \A joining \in {KeysJoining(concept_network[i].concept,
                                                  concept_network[i].related_concept)} :
                          Cardinality(joining) >= 2 =>
                              \E e \in 1..Len(edges) :
                                  /\ {edges[e].source, edges[e].target}
                                        = {concept_network[i].concept,
                                           concept_network[i].related_concept}
                                  /\ edges[e].weight = Cardinality(joining)

-----------------------------------------------------------------------------
\* C29: in the graph export_knowledge_graph writes, the source and the target
\* of every edge are ids of nodes of the same graph.
C29_ExportedGraphClosed ==
    reply.op = "export_knowledge_graph" =>
        \A ids \in {{reply.written.nodes[n].id : n \in 1..Len(reply.written.nodes)}} :
            \A e \in 1..Len(reply.written.edges) :
                /\ reply.written.edges[e].source \in ids
                /\ reply.written.edges[e].target \in ids

-----------------------------------------------------------------------------
(***************************************************************************)
(* Interleaved calls                                                       *)
(***************************************************************************)
RECURSIVE RunInOrder(_, _)
\* the store after the calls ran one after the other, each to its end
RunInOrder(st, calls) ==
    IF calls = << >> THEN st
    ELSE RunInOrder(
            BuildConceptNetworkForDocument(
                WriteDocument(st, Head(calls).result_data, Head(calls).file_path),
                CiteKeyOf(Head(calls).result_data)),
            Tail(calls))

\* the rows of a table without their ids, each with the number of times it
\* is in the table
RowBag(rows) ==
    {<<NoId(rows[i]), Cardinality({j \in 1..Len(rows) : NoId(rows[j]) = NoId(rows[i])})>> :
        i \in 1..Len(rows)}

\* the content of the four tables, row ids and row order ignored
ContentBag(st) ==
    [documents |-> RowBag(st.documents), pages |-> RowBag(st.pages),
     keywords |-> RowBag(st.keywords),
     concept_network |-> RowBag(st.concept_network)]

\* the orders in which n calls can run one after the other
Orders(n) == {f \in [1..n -> 1..n] : \A a, b \in 1..n : a # b => f[a] # f[b]}

\* C30: when add_extraction_result calls, for the same or for different
\* citation keys, were interleaved at the granularity of their two committed
\* transactions and all of them have returned, the content of the four
\* tables, row ids ignored, is the content left by the calls run one after
\* the other in some order, and the edge rows of every key are the pairs of
\* its top-20 keywords as the keyword rows now rank them.
C30_Serializable ==
    (log # << >> /\ \A i \in 1..Len(log) : log[i].outcome = "ok") =>
        /\ \E order \in Orders(Len(log)) :
              ContentBag(Store)
                  = ContentBag(RunInOrder(EmptyStore,
                                          [r \in 1..Len(log) |-> log[order[r]]]))
        /\ \A K \in IngestedKeys :
              EdgePairs(K) = ConceptPairs(RankedKeywords(keywords, K))

\* two calls for one key with different numbers of distinct keywords have
\* both returned, and the second call committed its rows before the first
\* call rebuilt the edges: both rebuilds wrote the same number of edge rows
C30_Witness ==
    /\ Len(log) = 2 /\ log[1].outcome = "ok" /\ log[2].outcome = "ok"
    /\ CiteKeyOf(log[1].result_data) = CiteKeyOf(log[2].result_data)
    /\ Cardinality(KeywordsOf(log[1].result_data)) >= 2
    /\ Cardinality(KeywordsOf(log[2].result_data)) >= 2
    /\ Cardinality(KeywordsOf(log[1].result_data))
          # Cardinality(KeywordsOf(log[2].result_data))
    /\ concept_network # << >>
    /\ sqlite_sequence.concept_network = 2 * Len(concept_network)

====
